---- MODULE Spec2Model ----
(***************************************************************************)
(* Model of the content retrieval agent (src/src/services/agent.py) and    *)
(* the capabilities it calls: the instruction parser and generator of      *)
(* services/llm.py, the searcher of services/search.py and the scraper of  *)
(* services/scraper.py.                                                    *)
(*                                                                         *)
(* One task runs through process_task.  Every await of the coroutine is    *)
(* one action; the outcome of each external call (the text-generation      *)
(* pipeline, the Tavily client, the browser driver) is chosen by the       *)
(* environment.                                                            *)
(*                                                                         *)
(* Spec      one task, from process_task to the table of its result.       *)
(* SpecTable create_content_table called with any list of items.           *)
(* SpecWS    the websocket endpoint of core/routes.py over the manager of  *)
(*           services/websocket.py, two websockets interleaved.            *)
(* SpecBC    one call of broadcast among connects and disconnects.         *)
(* SpecLive  Spec under the scheduling of the event loop.                  *)
(***************************************************************************)
EXTENDS Naturals, Sequences, FiniteSets, TLC

(* ------------------------------- bounds -------------------------------- *)

\* Longest list of scraped items.
MaxItems == 1

\* Longest field list the instruction parser returns.
MaxFields == 2

\* Most calls of _process_field in one task (items times fields).
MaxResolutions == 2

\* Longest list of items create_content_table is called with directly.
MaxRows == 2

\* Most texts the server receives over all its websockets.
MaxInbound == 3

(* ------------------------------- values -------------------------------- *)

\* Python's None.
None == "<None>"

\* Field names the parser may return; also the keys a scraped item may hold.
FieldNames == {"title", "author"}

\* Values a scraped item holds under a key: a text, the empty text, or None.
ItemValues == {"v", "", None}

\* Text the generation pipeline returns when it succeeds.
GeneratedText == "gen"

\* What SearchService._format_results makes of a response with results.
FormattedResults == "ctx"

\* URLs a task is submitted with (pydantic's HttpUrl accepts the first only).
Urls == {"https://example.com/test", "invalid_url"}

\* Instructions a task is submitted with.
Instructions == {"Extract the title and the author", ""}

\* Outcomes of TavilyClient.search: a response, or an exception (an API
\* error, or the client's request timing out).
SearchOutcomes == {"ok", "error", "timeout"}

\* Outcomes of the text-generation pipeline: a text, or an exception.
PipeOutcomes == {"ok", "error"}

\* Outcomes of the browser driver in WebScraper.scrape, up to the return:
\* the page loads, the response is not ok, or a call raises (authentication
\* included).
ScrapeOutcomes == {"ok", "not_ok", "exception"}

\* Outcomes of self.driver.close() in the finally clause of scrape.
CloseOutcomes == {"ok", "error"}

\* The values ContentField.source takes in _process_field.
Kinds == {"extracted", "generated", "error"}

(* --------------------------- bounded inputs ---------------------------- *)

\* Sequences over S of length at most n.
SeqUpTo(S, n) == UNION {[1..k -> S] : k \in 0..n}

\* A scraped item: a dict from some keys to values.
Items == UNION {[D -> ItemValues] : D \in SUBSET FieldNames}

\* What the pipeline answers to the parsing prompt: it raises, or its text
\* is not JSON, or is JSON that is no list of strings, or is a JSON list of
\* field names.
LlmResponses ==
    {[kind |-> "error", fields |-> <<>>],
     [kind |-> "not_json", fields |-> <<>>],
     [kind |-> "json_other", fields |-> <<>>]}
    \cup {[kind |-> "json_list", fields |-> fs] : fs \in SeqUpTo(FieldNames, MaxFields)}

(* ------------------------ dicts of ContentField ------------------------ *)

\* models/content.py ContentField(name, value, type, source).
ContentField(name, value, type, source) ==
    [name |-> name, value |-> value, type |-> type, source |-> source]

\* A Dict[str, ContentField] keeps insertion order: a sequence of fields,
\* each stored under its own name.
DictKeys(d) == [k \in 1..Len(d) |-> d[k].name]

DictHas(d, key) == \E k \in 1..Len(d) : d[k].name = key

DictGet(d, key) == d[CHOOSE k \in 1..Len(d) : d[k].name = key]

\* d[key] = cf: a new key is appended, an existing key keeps its place.
DictSet(d, key, cf) ==
    IF DictHas(d, key)
    THEN [k \in 1..Len(d) |-> IF d[k].name = key THEN cf ELSE d[k]]
    ELSE Append(d, cf)

(* ------------------------------ searcher ------------------------------- *)

\* SearchService._search: the client's answer, or its exception re-raised.
_search(outcome) ==
    IF outcome = "ok"
    THEN [raised |-> FALSE, value |-> "response"]
    ELSE [raised |-> TRUE, value |-> None]

\* SearchService._format_results on a response that holds results.
_format_results(response) == FormattedResults

\* find_information without its except clause: the exception of _search
\* reaches the caller.
find_information_reraising(outcome) ==
    LET r == _search(outcome)
    IN  IF r.raised
        THEN [raised |-> TRUE, value |-> None]
        ELSE [raised |-> FALSE, value |-> _format_results(r.value)]

\* SearchService.find_information: every exception becomes "".
find_information(outcome) ==
    LET r == _search(outcome)
    IN  IF r.raised
        THEN [raised |-> FALSE, value |-> ""]
        ELSE [raised |-> FALSE, value |-> _format_results(r.value)]

(* ------------------------------ generator ------------------------------ *)

\* LLMService._generate_text: the pipeline's text, or its exception re-raised.
_generate_text(outcome) ==
    IF outcome = "ok"
    THEN [raised |-> FALSE, value |-> GeneratedText]
    ELSE [raised |-> TRUE, value |-> None]

\* LLMService.generate_content: every exception becomes "".
generate_content(outcome) ==
    LET r == _generate_text(outcome)
    IN  IF r.raised
        THEN [raised |-> FALSE, value |-> ""]
        ELSE [raised |-> FALSE, value |-> r.value]

\* LLMService.parse_instructions: only a JSONDecodeError is caught (and
\* becomes []); an exception of the pipeline propagates; any JSON value is
\* returned as parsed.
parse_instructions(llm) ==
    CASE llm.kind = "error"      -> [raised |-> TRUE,  is_str_list |-> FALSE, value |-> <<>>]
      [] llm.kind = "not_json"   -> [raised |-> FALSE, is_str_list |-> TRUE,  value |-> <<>>]
      [] llm.kind = "json_other" -> [raised |-> FALSE, is_str_list |-> FALSE, value |-> <<>>]
      [] llm.kind = "json_list"  -> [raised |-> FALSE, is_str_list |-> TRUE,  value |-> llm.fields]

(* ------------------------------- scraper ------------------------------- *)

\* WebScraper.scrape: the extracted items when the page loads; an empty item
\* list when the response is not ok or when anything in the try block
\* raises.  The finally clause then closes the driver, outside any handler:
\* an exception of close() replaces the return value.
scrape(outcome, close, content) ==
    IF close = "error"
    THEN [raised |-> TRUE, items |-> <<>>]
    ELSE [raised |-> FALSE, items |-> IF outcome = "ok" THEN content ELSE <<>>]

(* --------------------------- field resolution -------------------------- *)

SearchCall == [capability |-> "search", context |-> None]

GenerateCall(context) == [capability |-> "generate", context |-> context]

\* The result of one call of _process_field: whether it raised, the
\* ContentField it returned, and the capability calls it made, in order.
FieldOutcome(raised, cf, calls, search, pipe) ==
    [raised |-> raised, cf |-> cf, calls |-> calls, search |-> search, pipe |-> pipe]

NoField == ContentField(None, None, None, None)

\* _process_field reading item[field] without the membership test: a
\* KeyError leaves it when the key is absent.
_process_field_unguarded(field, item, search, pipe) ==
    IF field \in DOMAIN item
    THEN FieldOutcome(FALSE, ContentField(field, item[field], "text", "extracted"),
                      <<>>, "none", "none")
    ELSE FieldOutcome(TRUE, NoField, <<>>, "none", "none")

\* _process_field asking the searcher before it looks at the item.
_process_field_search_first(field, item, search, pipe) ==
    LET s == find_information(search)
    IN  IF field \in DOMAIN item
        THEN FieldOutcome(FALSE, ContentField(field, item[field], "text", "extracted"),
                          <<SearchCall>>, search, "none")
        ELSE LET g == generate_content(pipe)
             IN  FieldOutcome(FALSE, ContentField(field, g.value, "text", "generated"),
                              <<SearchCall, GenerateCall(s.value)>>, search, pipe)

\* ContentAgent._process_field(field, item); search and pipe are what the
\* Tavily client and the generation pipeline do if they are called.
_process_field(field, item, search, pipe) ==
    IF field \in DOMAIN item
    THEN FieldOutcome(FALSE, ContentField(field, item[field], "text", "extracted"),
                      <<>>, "none", "none")
    ELSE LET s == find_information(search)
         IN  IF s.raised
             THEN FieldOutcome(FALSE, ContentField(field, None, "text", "error"),
                               <<SearchCall>>, search, "none")
             ELSE LET g == generate_content(pipe)
                      calls == <<SearchCall, GenerateCall(s.value)>>
                  IN  IF g.raised
                      THEN FieldOutcome(FALSE, ContentField(field, None, "text", "error"),
                                        calls, search, pipe)
                      ELSE FieldOutcome(FALSE, ContentField(field, g.value, "text", "generated"),
                                        calls, search, pipe)

(* ----------------------------- table builder --------------------------- *)

\* Positions of the items any() visits for a column before it stops: it
\* stops at the first item that lacks the column (KeyError) or whose field
\* is generated.
StopsAt(content, field) ==
    {i \in 1..Len(content) :
        \/ ~DictHas(content[i], field)
        \/ DictGet(content[i], field).source = "generated"}

Min(S) == CHOOSE x \in S : \A y \in S : x <= y

\* item[field] raises KeyError inside any(...) of the generated_fields list.
ColumnRaises(content, field) ==
    /\ StopsAt(content, field) # {}
    /\ ~DictHas(content[Min(StopsAt(content, field))], field)

\* generated_fields that looks at the first item only.
ColumnGenerated_first_item(content, field) ==
    DictHas(content[1], field) /\ DictGet(content[1], field).source = "generated"

\* any(item[field].source == "generated" for item in content), when it does
\* not raise.
ColumnGenerated(content, field) ==
    \E i \in 1..Len(content) :
        DictHas(content[i], field) /\ DictGet(content[i], field).source = "generated"

\* One row: {field: item[field].value for field in columns if field in item}.
TableRow(item, columns) ==
    LET present(f) == DictHas(item, f)
        kept == SelectSeq(columns, present)
    IN  [k \in 1..Len(kept) |-> [name |-> kept[k], value |-> DictGet(item, kept[k]).value]]

NoMetadata == [keys |-> {}, total_rows |-> 0, generated_fields |-> <<>>]

\* ContentAgent.create_content_table(content).
create_content_table(content) ==
    IF content = <<>>
    THEN [raised |-> FALSE, columns |-> <<>>, rows |-> <<>>, metadata |-> NoMetadata]
    ELSE LET columns == DictKeys(content[1])
             rows == [i \in 1..Len(content) |-> TableRow(content[i], columns)]
             generated(f) == ColumnGenerated(content, f)
         IN  IF \E k \in 1..Len(columns) : ColumnRaises(content, columns[k])
             THEN [raised |-> TRUE, columns |-> <<>>, rows |-> <<>>, metadata |-> NoMetadata]
             ELSE [raised |-> FALSE, columns |-> columns, rows |-> rows,
                   metadata |-> [keys |-> {"total_rows", "generated_fields"},
                                 total_rows |-> Len(rows),
                                 generated_fields |-> SelectSeq(columns, generated)]]

(* --------------------------- websocket manager ------------------------- *)

\* The websockets of the server and the client_id path parameters they come
\* with; two websockets may come with the same client_id.
WebSockets == {"ws1", "ws2"}
ClientIds == {"a", "b"}

\* DialogueMessage(sender, message, message_type, requires_response); a
\* message text is a sequence of pieces, so that an f-string is a
\* concatenation. The timestamp, a reading of the clock, is left out.
DialogueMessage(sender, message, message_type, requires_response) ==
    [sender |-> sender, message |-> message, message_type |-> message_type,
     requires_response |-> requires_response]

\* Python's None where a DialogueMessage may stand.
NoMessage == DialogueMessage(None, <<>>, None, FALSE)

\* The texts a client sends: JSON objects with some of the keys of a
\* DialogueMessage, or a text that is no JSON.
Text(name, json, keys, sender, message, message_type) ==
    [text |-> name, json |-> json, keys |-> keys, sender |-> sender,
     message |-> message, message_type |-> message_type]

NoText == Text("", FALSE, {}, None, <<>>, None)

InboundTexts ==
    {Text("hi", TRUE, {"sender", "message", "message_type"}, "user", <<"hi">>, "question"),
     Text("bye", TRUE, {"sender", "message", "message_type"}, "user", <<"bye">>, "instruction"),
     Text("no sender", TRUE, {"message", "message_type"}, None, <<"hi">>, "question"),
     Text("not json", FALSE, {}, None, <<>>, None)}

\* DialogueMessage.model_validate_json(message): the parsed message, or a
\* ValidationError with its reason.
model_validate_json(message) ==
    IF ~message.json
    THEN [raised |-> TRUE, reason |-> "Invalid JSON", value |-> NoMessage]
    ELSE IF ~({"sender", "message", "message_type"} \subseteq message.keys)
    THEN [raised |-> TRUE, reason |-> "Field required", value |-> NoMessage]
    ELSE [raised |-> FALSE, reason |-> "",
          value |-> DialogueMessage(message.sender, message.message,
                                    message.message_type, FALSE)]

\* d[key] = value and del d[key], for a dict from client ids.
DictPut(d, key, value) ==
    [k \in DOMAIN d \cup {key} |-> IF k = key THEN value ELSE d[k]]

DictDel(d, key) == [k \in DOMAIN d \ {key} |-> d[k]]

\* The entries of a dict, in insertion order: d[key] = value appends an
\* entry unless the key is there, del d[key] leaves a dummy (None) where
\* the entry was. (A dict this small is never resized.)
EntriesPut(entries, key) ==
    IF \E i \in 1..Len(entries) : entries[i] = key THEN entries
    ELSE Append(entries, key)

EntriesDel(entries, key) ==
    [i \in 1..Len(entries) |-> IF entries[i] = key THEN None ELSE entries[i]]

\* The task_id process_task draws with uuid4().
TaskId == "task-1"

\* The tables of DatabaseService with no row.
NoRows == [tasks |-> {}, content_items |-> {}, content_tables |-> {}]

\* The manager: its two dicts.
Manager(connections, states) ==
    [active_connections |-> connections, client_states |-> states]

\* connect that keeps the state entry a client_id already has.
connect_keeping(m, websocket, client_id) ==
    Manager(DictPut(m.active_connections, client_id, websocket),
            IF client_id \in DOMAIN m.client_states THEN m.client_states
            ELSE DictPut(m.client_states, client_id, [last_message |-> NoMessage]))

\* WebSocketManager.connect(websocket, client_id), once accept() returned.
connect(m, websocket, client_id) ==
    Manager(DictPut(m.active_connections, client_id, websocket),
            DictPut(m.client_states, client_id, [last_message |-> NoMessage]))

\* disconnect that leaves the state entry behind.
disconnect_connection_only(m, client_id) ==
    Manager(DictDel(m.active_connections, client_id), m.client_states)

\* WebSocketManager.disconnect(client_id).
disconnect(m, client_id) ==
    Manager(DictDel(m.active_connections, client_id),
            DictDel(m.client_states, client_id))

\* What process_message does: raise, or return the response; and the
\* manager's states afterwards.
Processed(raised, response, states) ==
    [raised |-> raised, response |-> response, client_states |-> states]

\* process_message without its "except Exception" clause.
process_message_reraising(states, client_id, message) ==
    LET v == model_validate_json(message)
    IN  IF v.raised
        THEN Processed(FALSE, DialogueMessage("agent", <<"Invalid message format: ", v.reason>>,
                                              "error", FALSE), states)
        ELSE IF client_id \notin DOMAIN states
        THEN Processed(TRUE, NoMessage, states)
        ELSE Processed(FALSE, DialogueMessage("agent", <<"Received: ">> \o v.value.message,
                                              "response", FALSE),
                       DictPut(states, client_id, [last_message |-> v.value]))

\* process_message that stores the message before it validates it.
process_message_recording(states, client_id, message) ==
    LET v == model_validate_json(message)
        m == DialogueMessage(message.sender, message.message, message.message_type, FALSE)
    IN  IF client_id \notin DOMAIN states
        THEN Processed(FALSE, DialogueMessage("agent", <<"Error processing message: ", client_id>>,
                                              "error", FALSE), states)
        ELSE IF v.raised
        THEN Processed(FALSE, DialogueMessage("agent", <<"Invalid message format: ", v.reason>>,
                                              "error", FALSE),
                       DictPut(states, client_id, [last_message |-> m]))
        ELSE Processed(FALSE, DialogueMessage("agent", <<"Received: ">> \o v.value.message,
                                              "response", FALSE),
                       DictPut(states, client_id, [last_message |-> v.value]))

\* WebSocketManager.process_message(client_id, message): a ValidationError
\* gives the "Invalid message format" response; the KeyError of
\* self.client_states[client_id], when the entry is missing, gives the
\* "Error processing message" response; else the message is stored and
\* acknowledged. No exception leaves it.
process_message(states, client_id, message) ==
    LET v == model_validate_json(message)
    IN  IF v.raised
        THEN Processed(FALSE, DialogueMessage("agent", <<"Invalid message format: ", v.reason>>,
                                              "error", FALSE), states)
        ELSE IF client_id \notin DOMAIN states
        THEN Processed(FALSE, DialogueMessage("agent", <<"Error processing message: ", client_id>>,
                                              "error", FALSE), states)
        ELSE Processed(FALSE, DialogueMessage("agent", <<"Received: ">> \o v.value.message,
                                              "response", FALSE),
                       DictPut(states, client_id, [last_message |-> v.value]))

(* ------------------------ request validation --------------------------- *)

\* pydantic's HttpUrl, the type of ContentRequest.url.
HttpUrl(u) == u = "https://example.com/test"

\* ContentRequest(url, instructions, auth_credentials, fields_to_extract)
\* validates: url is an HttpUrl, fields_to_extract is a List[str]
\* (instructions is any str).
ContentRequest(u, parsed) == HttpUrl(u) /\ parsed.is_str_list

(* -------------------------------- state -------------------------------- *)

VARIABLES
    pc,                 \* where process_task stands
    url,                \* process_task's url argument
    instructions,       \* process_task's instructions argument
    llm_response,       \* what the pipeline answered to the parsing prompt
    fields_to_extract,  \* the list parse_instructions returned
    scrape_outcome,     \* what the browser driver did
    scraped_content,    \* scraped_content["items"]
    item_idx,           \* position of process_content's outer loop
    field_idx,          \* position of process_content's inner loop
    processed_fields,   \* the dict of the item being processed
    processed_items,    \* process_content's result so far
    resolutions,        \* history: every call of _process_field of this task
    response,           \* the ContentResponse process_task returned
    table,              \* the ContentTable create_content_table returned
    table_input,        \* the content a direct call of create_content_table is given
    active_connections, \* ws_manager.active_connections: client_id -> websocket
    client_states,      \* ws_manager.client_states: client_id -> {"last_message": ...}
    ws_pc,              \* where websocket_endpoint stands, per websocket
    ws_client,          \* the client_id path parameter, per websocket
    data,               \* the text receive_text() returned last, per websocket
    reply,              \* the response process_message returned last, per websocket
    received,           \* texts received, per websocket
    sent,               \* responses sent, per websocket
    last_valid,         \* the last text of the websocket that validated, parsed
    last_op,            \* the last of connect and disconnect completed, per client_id
    conn_entries,       \* the entries of active_connections in insertion order
    bc_pc,              \* where the call of broadcast stands
    bc_pos,             \* entries the iterator of broadcast has passed
    bc_used,            \* size of active_connections when the iteration began
    bc_visited,         \* values the iterator has returned
    bc_start,           \* websockets registered when broadcast was called
    bc_target,          \* the websocket broadcast is sending to
    delivered,          \* times the broadcast message was sent, per websocket
    database            \* the tables of DatabaseService: task ids stored

\* The state of one task.
taskVars == <<pc, url, instructions, llm_response, fields_to_extract, scrape_outcome,
              scraped_content, item_idx, field_idx, processed_fields, processed_items,
              resolutions, response, table>>

\* The state of the websocket manager and of the websocket endpoints.
wsVars == <<active_connections, client_states, ws_pc, ws_client, data, reply,
            received, sent, last_valid, last_op, conn_entries>>

\* The state of one call of broadcast.
bcVars == <<bc_pc, bc_pos, bc_used, bc_visited, bc_start, bc_target, delivered>>

vars == <<taskVars, table_input, wsVars, bcVars, database>>

NoLlmResponse == [kind |-> "none", fields |-> <<>>]

NoResponse == [status |-> "none", content |-> <<>>, url |-> "", fields_extracted |-> <<>>]

NoTable == [built |-> FALSE, raised |-> FALSE, columns |-> <<>>, rows |-> <<>>,
            metadata |-> NoMetadata]

\* No task has been started.
TaskInit ==
    /\ pc = "idle"
    /\ url = ""
    /\ instructions = ""
    /\ llm_response = NoLlmResponse
    /\ fields_to_extract = <<>>
    /\ scrape_outcome = "none"
    /\ scraped_content = <<>>
    /\ item_idx = 1
    /\ field_idx = 1
    /\ processed_fields = <<>>
    /\ processed_items = <<>>
    /\ resolutions = <<>>
    /\ response = NoResponse
    /\ table = NoTable

\* The manager has no connection; no websocket has been opened.
WsInit ==
    /\ active_connections = <<>>
    /\ client_states = <<>>
    /\ ws_pc = [w \in WebSockets |-> "new"]
    /\ ws_client = [w \in WebSockets |-> None]
    /\ data = [w \in WebSockets |-> NoText]
    /\ reply = [w \in WebSockets |-> NoMessage]
    /\ received = [w \in WebSockets |-> 0]
    /\ sent = [w \in WebSockets |-> 0]
    /\ last_valid = [w \in WebSockets |-> NoMessage]
    /\ last_op = [c \in ClientIds |-> "none"]
    /\ conn_entries = <<>>

\* broadcast has not been called.
BcInit ==
    /\ bc_pc = "idle"
    /\ bc_pos = 0
    /\ bc_used = 0
    /\ bc_visited = 0
    /\ bc_start = {}
    /\ bc_target = None
    /\ delivered = [w \in WebSockets |-> 0]

\* The database is empty.
DbInit == database = NoRows

Init ==
    /\ TaskInit
    /\ table_input = <<>>
    /\ WsInit
    /\ BcInit
    /\ DbInit

(* ------------------------------- actions ------------------------------- *)

\* process_task(url, instructions) is called.
StartTask(u, ins) ==
    /\ pc = "idle"
    /\ pc' = "parse"
    /\ url' = u
    /\ instructions' = ins
    /\ UNCHANGED <<llm_response, fields_to_extract, scrape_outcome, scraped_content,
                   item_idx, field_idx, processed_fields, processed_items,
                   resolutions, response, table>>

\* fields_to_extract = await self.llm.parse_instructions(instructions); an
\* exception leaves process_task through its except clause, which re-raises.
ParseInstructions(llm) ==
    /\ pc = "parse"
    /\ llm_response' = llm
    /\ LET p == parse_instructions(llm)
       IN  IF p.raised
           THEN /\ pc' = "raised"
                /\ UNCHANGED fields_to_extract
           ELSE /\ pc' = "request"
                /\ fields_to_extract' = p.value
    /\ UNCHANGED <<url, instructions, scrape_outcome, scraped_content, item_idx,
                   field_idx, processed_fields, processed_items, resolutions,
                   response, table>>

\* request = ContentRequest(...); a ValidationError is re-raised.
CreateRequest ==
    /\ pc = "request"
    /\ pc' = IF ContentRequest(url, parse_instructions(llm_response))
             THEN "scrape" ELSE "raised"
    /\ UNCHANGED <<url, instructions, llm_response, fields_to_extract, scrape_outcome,
                   scraped_content, item_idx, field_idx, processed_fields,
                   processed_items, resolutions, response, table>>

\* scraped_content = await self.scraper.scrape(...), then process_content
\* starts its loops; an exception leaving scrape is re-raised.
Scrape(outcome, close, content) ==
    /\ pc = "scrape"
    /\ Len(content) * Len(fields_to_extract) <= MaxResolutions
    /\ scrape_outcome' = outcome
    /\ LET s == scrape(outcome, close, content)
       IN  /\ pc' = IF s.raised THEN "raised" ELSE "process"
           /\ scraped_content' = s.items
    /\ item_idx' = 1
    /\ field_idx' = 1
    /\ processed_fields' = <<>>
    /\ processed_items' = <<>>
    /\ UNCHANGED <<url, instructions, llm_response, fields_to_extract, resolutions,
                   response, table>>

\* One pass of process_content's inner loop:
\* processed_fields[field] = await self._process_field(field, item).
ProcessField(search, pipe) ==
    /\ pc = "process"
    /\ item_idx <= Len(scraped_content)
    /\ field_idx <= Len(fields_to_extract)
    /\ LET field == fields_to_extract[field_idx]
           item == scraped_content[item_idx]
           r == _process_field(field, item, search, pipe)
       IN  /\ resolutions' = Append(resolutions,
                                    [item |-> item, field |-> field, outcome |-> r])
           /\ IF r.raised
              THEN /\ pc' = "raised"
                   /\ UNCHANGED <<processed_fields, field_idx>>
              ELSE /\ pc' = pc
                   /\ processed_fields' = DictSet(processed_fields, field, r.cf)
                   /\ field_idx' = field_idx + 1
    /\ UNCHANGED <<url, instructions, llm_response, fields_to_extract, scrape_outcome,
                   scraped_content, item_idx, processed_items, response, table>>

\* The inner loop is over: processed_items.append(processed_fields).
FinishItem ==
    /\ pc = "process"
    /\ item_idx <= Len(scraped_content)
    /\ field_idx > Len(fields_to_extract)
    /\ processed_items' = Append(processed_items, processed_fields)
    /\ processed_fields' = <<>>
    /\ item_idx' = item_idx + 1
    /\ field_idx' = 1
    /\ UNCHANGED <<pc, url, instructions, llm_response, fields_to_extract,
                   scrape_outcome, scraped_content, resolutions, response, table>>

\* process_content returned: response = ContentResponse(status="completed",
\* content=processed_content, metadata={url, fields_extracted}); return.
CreateResponse ==
    /\ pc = "process"
    /\ item_idx > Len(scraped_content)
    /\ pc' = "returned"
    /\ response' = [status |-> "completed", content |-> processed_items, url |-> url,
                    fields_extracted |-> fields_to_extract]
    /\ UNCHANGED <<url, instructions, llm_response, fields_to_extract, scrape_outcome,
                   scraped_content, item_idx, field_idx, processed_fields,
                   processed_items, resolutions, table>>

\* The table of the task: create_content_table(response.content).
CreateContentTable ==
    /\ pc = "returned"
    /\ pc' = "tabled"
    /\ LET t == create_content_table(response.content)
       IN  table' = [built |-> TRUE, raised |-> t.raised, columns |-> t.columns,
                     rows |-> t.rows, metadata |-> t.metadata]
    /\ UNCHANGED <<url, instructions, llm_response, fields_to_extract, scrape_outcome,
                   scraped_content, item_idx, field_idx, processed_fields,
                   processed_items, resolutions, response>>

\* The steps of one task.
TaskNext ==
    \/ \E u \in Urls, ins \in Instructions : StartTask(u, ins)
    \/ \E llm \in LlmResponses : ParseInstructions(llm)
    \/ CreateRequest
    \/ \E outcome \in ScrapeOutcomes, close \in CloseOutcomes,
          content \in SeqUpTo(Items, MaxItems) : Scrape(outcome, close, content)
    \/ \E search \in SearchOutcomes, pipe \in PipeOutcomes : ProcessField(search, pipe)
    \/ FinishItem
    \/ CreateResponse
    \/ CreateContentTable

\* process_task and create_content_table make no call of DatabaseService.
Next == TaskNext /\ UNCHANGED <<table_input, wsVars, bcVars, database>>

Spec == Init /\ [][Next]_vars

\* The field process_content is at is a key of the item: _process_field
\* returns it without a call of the searcher or the generator.
FieldInItem ==
    /\ pc = "process"
    /\ item_idx <= Len(scraped_content)
    /\ field_idx <= Len(fields_to_extract)
    /\ fields_to_extract[field_idx] \in DOMAIN scraped_content[item_idx]

\* The steps process_content and process_task take on their own, once the
\* items are scraped: they wait for no answer of the searcher or of the
\* generator.
LocalNext ==
    /\ \/ FieldInItem /\ \E search \in SearchOutcomes, pipe \in PipeOutcomes :
                             ProcessField(search, pipe)
       \/ FinishItem
       \/ CreateResponse
    /\ UNCHANGED <<table_input, wsVars, bcVars, database>>

\* One task under the scheduling of the event loop: a coroutine that can
\* go on does go on. The awaits of find_information and generate_content
\* carry no timeout (and the calls under them are blocking), so nothing
\* makes a resolution that waits for the searcher or the generator go on:
\* its step is taken when the capability answers, and only then.
SpecLive == Init /\ [][Next]_vars /\ WF_vars(LocalNext)

(* ------------------- the table builder called directly ----------------- *)

\* The fields _process_field can return for a name: an extracted value, a
\* generated text, or the error field.
FieldResults(name) ==
    {ContentField(name, "v", "text", "extracted"),
     ContentField(name, GeneratedText, "text", "generated"),
     ContentField(name, None, "text", "error")}

\* The key lists of a Dict[str, ContentField]: field names, none repeated.
KeyLists ==
    {keys \in SeqUpTo(FieldNames, Cardinality(FieldNames)) :
        \A j, k \in 1..Len(keys) : j # k => keys[j] # keys[k]}

\* Every Dict[str, ContentField], in insertion order; the items of one list
\* need not have the same keys.
ResolvedItems ==
    UNION {{d \in [1..Len(keys) -> UNION {FieldResults(n) : n \in FieldNames}] :
                \A k \in 1..Len(keys) : d[k].name = keys[k]} : keys \in KeyLists}

\* create_content_table is about to be called with some list of items.
InitTable ==
    /\ TaskInit
    /\ table_input \in SeqUpTo(ResolvedItems, MaxRows)
    /\ WsInit
    /\ BcInit
    /\ DbInit

\* table = create_content_table(content), called on its own.
BuildTable ==
    /\ ~table.built
    /\ LET t == create_content_table(table_input)
       IN  table' = [built |-> TRUE, raised |-> t.raised, columns |-> t.columns,
                     rows |-> t.rows, metadata |-> t.metadata]
    /\ UNCHANGED <<pc, url, instructions, llm_response, fields_to_extract,
                   scrape_outcome, scraped_content, item_idx, field_idx,
                   processed_fields, processed_items, resolutions, response,
                   table_input>>

NextTable == BuildTable /\ UNCHANGED <<wsVars, bcVars, database>>

SpecTable == InitTable /\ [][NextTable]_vars

(* ------------------------- the websocket endpoint ---------------------- *)

SendOutcomes == {"ok", "error"}
AcceptOutcomes == {"ok", "error"}

\* Texts received so far over all websockets.
RECURSIVE Total(_, _)
Total(f, S) ==
    IF S = {} THEN 0
    ELSE LET w == CHOOSE x \in S : TRUE IN f[w] + Total(f, S \ {w})

\* The endpoint is left by an exception of its loop: "except Exception"
\* prints it and "finally" runs ws_manager.disconnect(client_id).
LeaveLoop(w) ==
    /\ ws_pc' = [ws_pc EXCEPT ![w] = "closed"]
    /\ LET m == disconnect(Manager(active_connections, client_states), ws_client[w])
       IN  /\ active_connections' = m.active_connections
           /\ client_states' = m.client_states
    /\ conn_entries' = EntriesDel(conn_entries, ws_client[w])
    /\ last_op' = [last_op EXCEPT ![ws_client[w]] = "disconnect"]

\* websocket_endpoint(websocket, client_id) starts: ws_manager.connect. An
\* exception of accept() leaves the endpoint before its try statement.
Connect(w, client_id, accept) ==
    /\ ws_pc[w] = "new"
    /\ IF accept = "ok"
       THEN /\ LET m == connect(Manager(active_connections, client_states), w, client_id)
               IN  /\ active_connections' = m.active_connections
                   /\ client_states' = m.client_states
            /\ conn_entries' = EntriesPut(conn_entries, client_id)
            /\ last_op' = [last_op EXCEPT ![client_id] = "connect"]
            /\ ws_pc' = [ws_pc EXCEPT ![w] = "receive"]
            /\ ws_client' = [ws_client EXCEPT ![w] = client_id]
       ELSE /\ ws_pc' = [ws_pc EXCEPT ![w] = "closed"]
            /\ UNCHANGED <<active_connections, client_states, ws_client,
                           conn_entries, last_op>>
    /\ UNCHANGED <<data, reply, received, sent, last_valid>>

\* data = await websocket.receive_text() returns a text and
\* response = await ws_manager.process_message(client_id, data) runs; no
\* other coroutine runs in between, process_message awaits nothing.
Receive(w, text) ==
    /\ ws_pc[w] = "receive"
    /\ Total(received, WebSockets) < MaxInbound
    /\ data' = [data EXCEPT ![w] = text]
    /\ received' = [received EXCEPT ![w] = @ + 1]
    /\ last_valid' = IF model_validate_json(text).raised THEN last_valid
                     ELSE [last_valid EXCEPT ![w] = model_validate_json(text).value]
    /\ LET p == process_message(client_states, ws_client[w], text)
       IN  IF p.raised
           THEN /\ LeaveLoop(w)
                /\ UNCHANGED reply
           ELSE /\ reply' = [reply EXCEPT ![w] = p.response]
                /\ client_states' = p.client_states
                /\ ws_pc' = [ws_pc EXCEPT ![w] = "send"]
                /\ UNCHANGED <<active_connections, conn_entries, last_op>>
    /\ UNCHANGED <<ws_client, sent>>

\* The client closes: receive_text() raises WebSocketDisconnect.
ReceiveDisconnect(w) ==
    /\ ws_pc[w] = "receive"
    /\ LeaveLoop(w)
    /\ UNCHANGED <<ws_client, data, reply, received, sent, last_valid>>

\* A loop that goes back to receive_text() without sending the response.
Send_unanswered(w, outcome) ==
    /\ ws_pc[w] = "send"
    /\ IF outcome = "ok"
       THEN /\ ws_pc' = [ws_pc EXCEPT ![w] = "receive"]
            /\ UNCHANGED <<active_connections, client_states, conn_entries, last_op>>
       ELSE LeaveLoop(w)
    /\ UNCHANGED <<ws_client, data, reply, received, sent, last_valid>>

\* await websocket.send_text(response): the response is sent and the loop
\* goes back to receive_text(), or send_text raises (the client is gone).
Send(w, outcome) ==
    /\ ws_pc[w] = "send"
    /\ IF outcome = "ok"
       THEN /\ sent' = [sent EXCEPT ![w] = @ + 1]
            /\ ws_pc' = [ws_pc EXCEPT ![w] = "receive"]
            /\ UNCHANGED <<active_connections, client_states, conn_entries, last_op>>
       ELSE /\ LeaveLoop(w)
            /\ UNCHANGED sent
    /\ UNCHANGED <<ws_client, data, reply, received, last_valid>>

WsNext ==
    \/ \E w \in WebSockets, client_id \in ClientIds, accept \in AcceptOutcomes :
          Connect(w, client_id, accept)
    \/ \E w \in WebSockets, text \in InboundTexts : Receive(w, text)
    \/ \E w \in WebSockets : ReceiveDisconnect(w)
    \/ \E w \in WebSockets, outcome \in SendOutcomes : Send(w, outcome)

NextWS == WsNext /\ UNCHANGED <<taskVars, table_input, bcVars, database>>

SpecWS == Init /\ [][NextWS]_vars

(* ------------------------------- broadcast ----------------------------- *)

\* The websockets that are values of active_connections.
Registered == {active_connections[c] : c \in DOMAIN active_connections}

\* What next() of the iterator of a dict's values does.
Iterated(kind, pos, value) == [kind |-> kind, pos |-> pos, value |-> value]

\* next() of the iterator of self.active_connections.values(): RuntimeError
\* when the dict has not the size it had when the iteration began; else the
\* value of the next entry that is no dummy, StopIteration if there is
\* none. An interpreter that counts the values it returns (strict) raises
\* RuntimeError on a value beyond the size at the beginning.
IterNext(entries, connections, pos, used, visited, strict) ==
    LET later == {i \in (pos + 1)..Len(entries) : entries[i] # None}
    IN  IF Cardinality(DOMAIN connections) # used
        THEN Iterated("raise", pos, None)
        ELSE IF later = {}
        THEN Iterated("stop", pos, None)
        ELSE IF strict /\ visited = used
        THEN Iterated("raise", pos, None)
        ELSE Iterated("value", Min(later), connections[entries[Min(later)]])

\* The for statement of broadcast takes the next connection and calls its
\* send_text, or the loop ends, or the iterator raises.
BroadcastNext(pos, used, visited, strict) ==
    LET n == IterNext(conn_entries, active_connections, pos, used, visited, strict)
    IN  /\ bc_pos' = n.pos
        /\ bc_target' = n.value
        /\ bc_visited' = IF n.kind = "value" THEN visited + 1 ELSE visited
        /\ bc_pc' = CASE n.kind = "value" -> "sending"
                       [] n.kind = "stop" -> "returned"
                       [] n.kind = "raise" -> "raised"

\* broadcast(message) is called: the iteration begins and runs up to the
\* await of the first send_text.
BroadcastCall(strict) ==
    /\ bc_pc = "idle"
    /\ bc_start' = Registered
    /\ bc_used' = Cardinality(DOMAIN active_connections)
    /\ BroadcastNext(0, Cardinality(DOMAIN active_connections), 0, strict)
    /\ UNCHANGED delivered

\* await connection.send_text(message) is over: it raised, and the
\* exception leaves broadcast, or the message is sent and the for
\* statement goes on.
BroadcastSent(outcome, strict) ==
    /\ bc_pc = "sending"
    /\ IF outcome = "ok"
       THEN /\ delivered' = [delivered EXCEPT ![bc_target] = @ + 1]
            /\ BroadcastNext(bc_pos, bc_used, bc_visited, strict)
       ELSE /\ bc_pc' = "raised"
            /\ UNCHANGED <<bc_pos, bc_visited, bc_target, delivered>>
    /\ UNCHANGED <<bc_used, bc_start>>

\* One call of broadcast among the connects and disconnects of the
\* endpoints.
NextBC ==
    \/ /\ \/ \E w \in WebSockets, client_id \in ClientIds, accept \in AcceptOutcomes :
                Connect(w, client_id, accept)
          \/ \E w \in WebSockets : ReceiveDisconnect(w)
       /\ UNCHANGED <<taskVars, table_input, bcVars, database>>
    \/ /\ \/ \E strict \in BOOLEAN : BroadcastCall(strict)
          \/ \E outcome \in SendOutcomes, strict \in BOOLEAN : BroadcastSent(outcome, strict)
       /\ UNCHANGED <<taskVars, table_input, wsVars, database>>

SpecBC == Init /\ [][NextBC]_vars

(* ------------------------------- claims -------------------------------- *)

\* The calls of _process_field made so far.
Resolved == {resolutions[k] : k \in 1..Len(resolutions)}

\* The field's name is a key of the item.
Present(r) == r.field \in DOMAIN r.item

\* A value Python takes for non-empty: neither the empty text nor None.
NonEmpty(v) == v \notin {"", None}

SearchFailed(r) == r.outcome.search \in {"error", "timeout"}

Finished == pc \in {"returned", "tabled"}

\* list(dict.fromkeys(s)): s without its repeated elements, first ones kept.
RECURSIVE Dedup(_)
Dedup(s) ==
    IF s = <<>> THEN <<>>
    ELSE LET rest == Dedup(SubSeq(s, 1, Len(s) - 1))
             last == s[Len(s)]
         IN  IF \E k \in 1..Len(rest) : rest[k] = last THEN rest ELSE Append(rest, last)

\* C1: _process_field never raises: whatever the field, the item and the
\* outcomes of the searcher and of the generator, it returns a field whose
\* source is extracted, generated or error, and process_task is not left
\* by an exception of a field resolution.
C1_ResolveNeverRaises ==
    \A r \in Resolved :
        /\ ~r.outcome.raised
        /\ r.outcome.cf.name = r.field
        /\ r.outcome.cf.source \in Kinds

\* C1 witness: a field absent from the item was resolved while both the
\* search and the generation pipeline raised.
C1_Witness ==
    \E r \in Resolved :
        ~Present(r) /\ r.outcome.search = "error" /\ r.outcome.pipe = "error"

\* C2: a field whose name is a key of the item with a non-empty value is
\* returned as extracted, with the item's value itself, and neither the
\* searcher nor the generator is called.
C2_TierShortCircuit ==
    \A r \in Resolved :
        (Present(r) /\ NonEmpty(r.item[r.field])) =>
            /\ r.outcome.cf.source = "extracted"
            /\ r.outcome.cf.value = r.item[r.field]
            /\ r.outcome.calls = <<>>

\* C2 witness: a field present with a non-empty value was resolved.
C2_Witness ==
    \E r \in Resolved : Present(r) /\ NonEmpty(r.item[r.field]) /\ ~r.outcome.raised

\* C3 (as claimed): for a field absent from the item, a generator that
\* succeeds gives source generated with the generated text, and a generator
\* that fails gives source error with value None, whatever the searcher did.
C3_Claimed ==
    \A r \in Resolved :
        ~Present(r) =>
            /\ r.outcome.pipe = "ok" =>
                  r.outcome.cf.source = "generated" /\ r.outcome.cf.value = GeneratedText
            /\ r.outcome.pipe = "error" =>
                  r.outcome.cf.source = "error" /\ r.outcome.cf.value = None

\* C4: when the search fails (error or timeout) for a field absent from the
\* item, the generator is still called, with "" as context, and the source
\* of the result is the one every other resolution of an absent field with
\* the same generator outcome gets, whether its search failed or not.
C4_SearchFailureNonFatal ==
    \A r \in Resolved :
        (~Present(r) /\ SearchFailed(r)) =>
            /\ ~r.outcome.raised
            /\ r.outcome.calls = <<SearchCall, GenerateCall("")>>
            /\ \A q \in Resolved :
                  (~Present(q) /\ q.outcome.pipe = r.outcome.pipe) =>
                      q.outcome.cf.source = r.outcome.cf.source

\* C4 witness: two absent fields were resolved with the same generator
\* outcome, the search of one timing out and the search of the other
\* succeeding.
C4_Witness ==
    \E r, q \in Resolved :
        /\ ~Present(r) /\ r.outcome.search = "timeout"
        /\ ~Present(q) /\ q.outcome.search = "ok"
        /\ q.outcome.pipe = r.outcome.pipe
        /\ r.outcome.calls = <<SearchCall, GenerateCall("")>>

\* C5 (as claimed): the source is extracted only when the key is present
\* with a non-empty value; a key present with an empty value is not
\* returned as extracted but goes on to the searcher and then the generator.
C5_Claimed ==
    \A r \in Resolved :
        /\ r.outcome.cf.source = "extracted" =>
              Present(r) /\ NonEmpty(r.item[r.field])
        /\ (Present(r) /\ ~NonEmpty(r.item[r.field])) =>
              /\ r.outcome.cf.source # "extracted"
              /\ Len(r.outcome.calls) = 2
              /\ r.outcome.calls[1].capability = "search"
              /\ r.outcome.calls[2].capability = "generate"

\* C6 (as claimed): in every field result the value is None exactly when
\* the source is error.
C6_Claimed ==
    \A r \in Resolved :
        ~r.outcome.raised =>
            (r.outcome.cf.value = None <=> r.outcome.cf.source = "error")

\* Every scraped item has its resolved item, and a resolved item holds one
\* entry for each requested field, in the order the fields were requested.
OneEntryPerRequestedField ==
    Finished =>
        /\ Len(response.content) = Len(scraped_content)
        /\ \A i \in 1..Len(response.content) :
              DictKeys(response.content[i]) = Dedup(fields_to_extract)

\* C7 (as claimed): a resolved item has exactly one entry for each requested
\* field, in the requested order, also when fields fail: the entry of a
\* field whose generation failed has source error, and the other fields are
\* resolved all the same.
C7_Claimed ==
    /\ OneEntryPerRequestedField
    /\ Finished =>
          \A r \in Resolved : r.outcome.pipe = "error" => r.outcome.cf.source = "error"

\* The parser produced no field list: the pipeline raised, or its answer
\* is not JSON, or is JSON that is no list of field names.
ParsingFailed == llm_response.kind \in {"error", "not_json", "json_other"}

\* C8 (as claimed): when instruction parsing fails the task never reports
\* completed (a result it returns has status failed) and no table is made
\* of scraped or resolved content.
C8_Claimed ==
    ParsingFailed =>
        /\ response.status # "completed"
        /\ Finished => response.status = "failed"
        /\ ~table.built

\* C9 (as claimed): when the scraper returns no item the task is completed,
\* its table has no rows, and the columns of the table are the requested
\* fields in parse order.
C9_Claimed ==
    (pc = "tabled" /\ scraped_content = <<>>) =>
        /\ response.status = "completed"
        /\ ~table.raised
        /\ table.rows = <<>>
        /\ table.columns = fields_to_extract

\* C10 (as claimed): when parsing gives a field list (and the URL is
\* valid), the result process_task returns is completed, never failed,
\* under every combination of scrape, search and generation failures: a
\* failed scrape shows as an empty item list and a failed generation as a
\* field of source error.
C10_Claimed ==
    (llm_response.kind = "json_list" /\ HttpUrl(url) /\ Finished) =>
        /\ response.status = "completed"
        /\ scrape_outcome # "ok" => response.content = <<>>
        /\ \A r \in Resolved :
              r.outcome.pipe = "error" =>
                  r.outcome.cf.source = "error" /\ r.outcome.cf.value = None

\* C11 (as claimed): when parsing gives a field list (and the URL is
\* valid, as the route guarantees), process_task is never left by an
\* exception, whatever the scraper, the searcher and the generator do: it
\* always returns a result.
C11_Claimed ==
    (llm_response.kind = "json_list" /\ HttpUrl(url)) => pc # "raised"

\* C12 (as claimed): the completed result process_task returns carries,
\* next to the resolved items, the table built from exactly those items:
\* the table is built before process_task returns.
C12_Claimed ==
    (pc = "returned" /\ response.status = "completed") =>
        /\ table.built
        /\ "table" \in DOMAIN response
        /\ table.columns = create_content_table(response.content).columns
        /\ table.rows = create_content_table(response.content).rows

\* The keys of all items, one list after the other.
RECURSIVE AllKeys(_)
AllKeys(content) ==
    IF content = <<>> THEN <<>>
    ELSE AllKeys(SubSeq(content, 1, Len(content) - 1)) \o DictKeys(content[Len(content)])

\* The names of a row's entries, in order.
RowNames(row) == [k \in 1..Len(row) |-> row[k].name]

\* Every item has the keys of the first one.
SameKeys(content) ==
    \A i \in 1..Len(content) :
        {DictKeys(content[i])[k] : k \in 1..Len(DictKeys(content[i]))}
            = {DictKeys(content[1])[k] : k \in 1..Len(DictKeys(content[1]))}

\* C13 (as claimed): the columns of the table are the field names of all
\* the items, each once, ordered by first appearance over the items in
\* input order; a field only a later item has is a column too.
C13_Claimed ==
    (table.built /\ ~table.raised) =>
        table.columns = Dedup(AllKeys(table_input))

\* C14 (as claimed): the builder never raises and the table is
\* rectangular: every row has one entry per column, in column order, and
\* the entry is None when the item lacks the column's field or the field
\* is of source error.
C14_Claimed ==
    table.built =>
        /\ ~table.raised
        /\ Len(table.rows) = Len(table_input)
        /\ \A i \in 1..Len(table.rows) :
              /\ RowNames(table.rows[i]) = table.columns
              /\ \A k \in 1..Len(table.rows[i]) :
                    LET f == table.rows[i][k].name
                    IN  (\/ ~DictHas(table_input[i], f)
                         \/ DictGet(table_input[i], f).source = "error")
                            => table.rows[i][k].value = None

C16_Claimed ==
    (table.built /\ table_input = <<>>) =>
        /\ ~table.raised
        /\ table.columns = <<>>
        /\ table.rows = <<>>
        /\ table.metadata.keys = {"total_rows", "generated_fields"}
        /\ table.metadata.total_rows = 0
        /\ table.metadata.generated_fields = <<>>

\* The text validates as a DialogueMessage.
Valid(text) == ~model_validate_json(text).raised

\* The websocket has just received a text: this step is its Receive.
Received(w) == ws_pc[w] = "receive" /\ received'[w] = received[w] + 1

\* C17: turn-taking on every websocket. While the endpoint waits for a
\* text every text received has been answered; while a response is
\* pending exactly one text is unanswered, and no text is read before
\* the response is sent; so n texts give n responses. A text stays
\* unanswered only when the endpoint was left because send_text raised.
C17_TurnTaking ==
    \A w \in WebSockets :
        /\ ws_pc[w] = "new" => received[w] = 0 /\ sent[w] = 0
        /\ ws_pc[w] = "receive" => sent[w] = received[w]
        /\ ws_pc[w] = "send" =>
              /\ received[w] = sent[w] + 1
              /\ reply[w] # NoMessage
              /\ data[w] # NoText
        /\ ws_pc[w] = "closed" => sent[w] <= received[w] /\ received[w] <= sent[w] + 1

\* A websocket that received three texts, malformed and valid ones, and
\* sent three responses.
C17_Witness ==
    \E w \in WebSockets :
        /\ ws_pc[w] = "receive"
        /\ received[w] = 3 /\ sent[w] = 3
        /\ ~Valid(data[w])
        /\ last_valid[w] # NoMessage

C19_Claimed ==
    \A w \in WebSockets :
        /\ (ws_pc[w] = "send" /\ Valid(data[w])) =>
              /\ reply[w] = DialogueMessage("agent", <<"Received: ">> \o data[w].message,
                                            "response", FALSE)
              /\ ws_client[w] \in DOMAIN client_states
              /\ client_states[ws_client[w]].last_message
                    = model_validate_json(data[w]).value
        /\ ws_pc[w] \in {"receive", "send"} =>
              /\ ws_client[w] \in DOMAIN client_states
              /\ client_states[ws_client[w]].last_message = last_valid[w]

\* C20: a failure of process_message that is no validation error, the
\* KeyError of a missing client_states entry, does not leave the loop: the
\* text is answered by one message of message_type error, nothing of the
\* manager changes, and once the response is sent the endpoint waits for
\* the next text.
C20_InternalFailureAnswered ==
    [][\A w \in WebSockets :
          /\ (Received(w) /\ Valid(data'[w]) /\ ws_client[w] \notin DOMAIN client_states) =>
                /\ ws_pc'[w] = "send"
                /\ reply'[w] = DialogueMessage("agent",
                                    <<"Error processing message: ", ws_client[w]>>,
                                    "error", FALSE)
                /\ sent'[w] = sent[w]
                /\ client_states' = client_states
                /\ active_connections' = active_connections
          /\ (ws_pc[w] = "send" /\ reply[w].message_type = "error"
                /\ sent'[w] = sent[w] + 1) =>
                ws_pc'[w] = "receive"]_vars

\* The session entry of a websocket was deleted by the disconnect of
\* another websocket of the same client_id; its next valid text was
\* answered by the "Error processing message" response, and the endpoint
\* waits for the next text.
C20_Witness ==
    \E w \in WebSockets :
        /\ ws_pc[w] = "receive"
        /\ Valid(data[w])
        /\ reply[w] = DialogueMessage("agent", <<"Error processing message: ", ws_client[w]>>,
                                      "error", FALSE)
        /\ sent[w] = received[w]
        /\ ws_client[w] \notin DOMAIN client_states

\* The endpoint of the websocket is in its loop.
Live(w) == ws_pc[w] \in {"receive", "send"}

\* C21: right after connect(client_id) the session of the client_id is
\* fresh: its last_message is None, whatever was stored under the
\* client_id before, and whether or not an earlier websocket of the same
\* client_id is still registered.
C21_FreshSession ==
    [][\A w \in WebSockets :
          (ws_pc[w] = "new" /\ ws_pc'[w] = "receive") =>
              /\ ws_client'[w] \in DOMAIN client_states'
              /\ client_states'[ws_client'[w]] = [last_message |-> NoMessage]
              /\ ws_client'[w] \in DOMAIN active_connections'
              /\ active_connections'[ws_client'[w]] = w]_vars

\* A websocket has just connected with the client_id of an earlier one
\* that is still in its loop and had a valid message stored: the
\* last_message of the client_id is None again.
C21_Witness ==
    \E w1, w2 \in WebSockets :
        /\ w1 # w2
        /\ ws_pc[w1] = "receive" /\ last_valid[w1] # NoMessage
        /\ ws_pc[w2] = "receive" /\ received[w2] = 0
        /\ ws_client[w1] = ws_client[w2]
        /\ ws_client[w2] \in DOMAIN client_states
        /\ client_states[ws_client[w2]].last_message = NoMessage

\* C22 (as claimed): the last_message of a session is written by the
\* texts of the session's own websocket only: whenever a websocket is in
\* its loop and its client_id has a state entry, the last_message there is
\* the last valid text of that websocket (None if it had none), under
\* every interleaving with another websocket, of the same client_id or
\* not.
C22_Claimed ==
    \A w \in WebSockets :
        (Live(w) /\ ws_client[w] \in DOMAIN client_states) =>
            client_states[ws_client[w]].last_message = last_valid[w]

\* C29 (as claimed): the disconnect of one websocket does not destroy the
\* session of another websocket that is still in its loop: the entries of
\* its client_id in active_connections and client_states remain, and its
\* valid texts are still answered by message_type response.
C29_Claimed ==
    \A w \in WebSockets :
        Live(w) =>
            /\ ws_client[w] \in DOMAIN active_connections
            /\ ws_client[w] \in DOMAIN client_states
            /\ (ws_pc[w] = "send" /\ Valid(data[w])) =>
                  reply[w].message_type = "response"

C30_Claimed ==
    /\ bc_pc # "raised"
    /\ bc_pc = "returned" =>
          \A w \in bc_start \cap Registered : delivered[w] = 1

\* Calls of _process_field made so far for a field name.
ResolutionsOf(f) == {k \in 1..Len(resolutions) : resolutions[k].field = f}

\* C24 (as claimed): a task whose URL is invalid, or whose instructions
\* are empty, is rejected: process_task raises and never returns a
\* completed result for it.
C24_Claimed ==
    (~HttpUrl(url) \/ instructions = "") =>
        /\ ~Finished
        /\ response.status # "completed"

\* C25 (as claimed): once process_task has returned a completed result,
\* the database holds the task, its content items and its content table
\* under the task id.
C25_Claimed ==
    (Finished /\ response.status = "completed") =>
        /\ TaskId \in database.tasks
        /\ TaskId \in database.content_items
        /\ TaskId \in database.content_tables

\* C27 (as claimed): the fields of an item are resolved concurrently: the
\* call of _process_field for a field does not wait for the return of the
\* call for an earlier field, so once one call for the item has returned,
\* the calls for all the fields of the item have been made; and the
\* entries of the resolved item are in the order of the field list (a
\* list without repeated names).
C27_Claimed ==
    fields_to_extract = Dedup(fields_to_extract) =>
        /\ (pc = "process" /\ item_idx <= Len(scraped_content) /\ field_idx > 1) =>
              Len(resolutions) = item_idx * Len(fields_to_extract)
        /\ Finished =>
              \A i \in 1..Len(response.content) :
                  DictKeys(response.content[i]) = fields_to_extract

\* C28 (as claimed): the field list of the task has no name twice: a name
\* the parser returned more than once is resolved once for each item, is
\* once in the field list of the result, and is one column of the table.
C28_Claimed ==
    /\ \A f \in FieldNames : Cardinality(ResolutionsOf(f)) <= Len(scraped_content)
    /\ Finished => response.fields_extracted = Dedup(response.fields_extracted)
    /\ (pc = "tabled" /\ ~table.raised) => table.columns = Dedup(table.columns)

\* C23 (as claimed): a searcher or a generator that never answers is cut
\* off by a timeout: every field resolution process_content has begun
\* returns, and the task finishes. (The behaviour that refutes it stays at
\* a field that is no key of its item: the step of its resolution is
\* enabled there for ever and waits for the capability's answer.)
C23_Claimed == (pc = "process") ~> Finished

====
